---- MODULE Spec2Model ----
(***************************************************************************)
(* A model of weasyprint/navigator.py: the extraction of links and anchors *)
(* from a laid-out box tree (find_links), the pairing of box trees with    *)
(* rasterised pages (get_pages), the assembly of the HTML page             *)
(* (render_template), URL normalisation (normalize_url) and the WSGI       *)
(* dispatcher (app).                                                       *)
(*                                                                         *)
(* Python strings are sequences of one-character strings; None is the      *)
(* one-element sequence <<"None">>, which no string equals.                *)
(***************************************************************************)
EXTENDS Integers, Sequences, FiniteSets, TLC

VARIABLES
    \* find_links
    nodes,          \* the box tree handed to find_links: node id -> box
    links,          \* the links list find_links appends to
    anchors,        \* the anchors list find_links appends to
    runs,           \* how many times the extraction ran on the tree
    \* normalize_url
    url_in,         \* the url argument of the first call
    query_in,       \* the query_string argument of the first call
    normalized,     \* what the first call returned
    renormalized,   \* what normalize_url(normalized) returned
    calls,          \* how many of the two calls were made
    \* app, render_template, get_pages
    pc,             \* where the request is: app, render, pages, join,
                    \* returned (app returned), raised (an exception left app)
    environ,        \* the WSGI environ: PATH_INFO, QUERY_STRING
    branch,         \* the branch of app that was taken
    rt_url,         \* render_template's url
    parts,          \* render_template's parts
    html_built,     \* HTML objects built by render_template
    gen,            \* the get_pages generator: none, created, running, exhausted
    document,       \* document.pages, one box tree per page
    png_pages,      \* png_pages, one (width, height, png_bytes) per page
    idx,            \* pairs izip has delivered
    pages,          \* the tuples get_pages has yielded
    start_calls,    \* the calls of start_response: (status, headers)
    response,       \* what app returned
    pdf_calls       \* the urls HTML(url=...).write_pdf was called on

linkVars == <<nodes, links, anchors, runs>>
normVars == <<url_in, query_in, normalized, renormalized, calls>>

appVars == <<pc, environ, branch, rt_url, parts, html_built, gen, document,
             png_pages, idx, pages, start_calls, response, pdf_calls>>

vars == <<nodes, links, anchors, runs,
          url_in, query_in, normalized, renormalized, calls,
          pc, environ, branch, rt_url, parts, html_built, gen, document,
          png_pages, idx, pages, start_calls, response, pdf_calls>>

(***************************************************************************)
(* Bounds of the model.                                                    *)
(***************************************************************************)
MaxBoxes == 3
MaxRuns == 2
MaxUrlLen == 3
MaxPages == 2

(***************************************************************************)
(* Python values.                                                          *)
(***************************************************************************)
None == <<"None">>

\* Python truthiness of a value that is None or a sequence (str, tuple).
Truthy(v) == v # None /\ v # <<>>

HashPrefix == <<"#">>
ViewPrefix == <<"/", "v", "i", "e", "w", "/">>

startswith(s, p) == Len(s) >= Len(p) /\ SubSeq(s, 1, Len(p)) = p

(***************************************************************************)
(* The parts of the state a specification does not use stay as they are    *)
(* here.                                                                   *)
(***************************************************************************)
LinksIdle == nodes = <<>> /\ links = <<>> /\ anchors = <<>> /\ runs = 0

NormIdle ==
    /\ url_in = None
    /\ query_in = None
    /\ normalized = None
    /\ renormalized = None
    /\ calls = 0

AppIdle ==
    /\ pc = "idle"
    /\ environ = None
    /\ branch = "none"
    /\ rt_url = None
    /\ parts = <<>>
    /\ html_built = 0
    /\ gen = "none"
    /\ document = <<>>
    /\ png_pages = <<>>
    /\ idx = 0
    /\ pages = <<>>
    /\ start_calls = <<>>
    /\ response = None
    /\ pdf_calls = <<>>

(***************************************************************************)
(* Boxes.  A tree is a sequence of boxes indexed by node id, its root is   *)
(* node 1.  A box has a class (kind), the computed style values link and   *)
(* anchor, the border box hit_area() returns and, on a ParentBox, the      *)
(* ordered children.                                                       *)
(***************************************************************************)
BoxKinds == {"TextBox", "ParentBox"}
LinkTypes == {"internal", "external"}
Hrefs == {<<"s">>}
AnchorNames == {<<"t">>}
LinkValues == {None} \cup {<<t, h>> : t \in LinkTypes, h \in Hrefs}
AnchorValues == {None} \cup AnchorNames

Box(kind, link, anchor, hit) ==
    [kind |-> kind, link |-> link, anchor |-> anchor, hit |-> hit,
     children |-> <<>>]

IsTextBox(box) == box.kind = "TextBox"
IsParentBox(box) == box.kind = "ParentBox"
hit_area(box) == box.hit

(***************************************************************************)
(* find_links                                                              *)
(***************************************************************************)
\* line 39 without the TextBox test
LinkOnAnyBox(box) == Truthy(box.link)

\* line 39: if link and not isinstance(box, boxes.TextBox)
LinkRecorded(box) == Truthy(box.link) /\ ~IsTextBox(box)

\* lines 40-44 with the internal case lost
LinkTargetAlwaysView(link) == ViewPrefix \o link[2]

\* lines 40-44: type_, href = box.style.link; '#' + href or '/view/' + href
LinkTarget(link) ==
    LET type_ == link[1]
        href == link[2]
    IN IF type_ = "internal" THEN HashPrefix \o href ELSE ViewPrefix \o href

\* line 50 nested under the link test of line 39
AnchorOnlyWithLink(box) == Truthy(box.anchor) /\ LinkRecorded(box)

\* line 50: if anchor
AnchorRecorded(box) == Truthy(box.anchor)

\* lines 37-51: what one box appends to the two lists
VisitBox(box, acc) ==
    LET acc1 == IF LinkRecorded(box)
                THEN [acc EXCEPT !.links =
                         Append(@, <<LinkTarget(box.link)>> \o hit_area(box))]
                ELSE acc
    IN IF AnchorRecorded(box)
       THEN [acc1 EXCEPT !.anchors =
                Append(@, <<box.anchor>> \o hit_area(box))]
       ELSE acc1

\* line 54 walking the children backwards
ChildAtReversed(children, i) == children[Len(children) + 1 - i]

\* line 54: for child in box.children
ChildAt(children, i) == children[i]

RECURSIVE find_links(_, _, _)
RECURSIVE FindInChildren(_, _, _, _)

\* lines 53-55: the loop over box.children, from the i-th child on
FindInChildren(tree, children, i, acc) ==
    IF i > Len(children) THEN acc
    ELSE FindInChildren(tree, children, i + 1,
                        find_links(tree, ChildAt(children, i), acc))

\* lines 36-55
find_links(tree, b, acc) ==
    LET box == tree[b]
        own == VisitBox(box, acc)
    IN IF IsParentBox(box)
       THEN FindInChildren(tree, box.children, 1, own)
       ELSE own

\* lines 61-63: links = []; anchors = []; find_links(page, links, anchors)
Extracted(tree) == find_links(tree, 1, [links |-> <<>>, anchors |-> <<>>])

(***************************************************************************)
(* The box trees: the renderer builds a tree box by box, each new box      *)
(* placed anywhere among the children of a ParentBox.                      *)
(***************************************************************************)
HitOf(id) == <<10 * id, 20 * id, 100, 30>>

InsertAt(s, pos, e) == SubSeq(s, 1, pos) \o <<e>> \o SubSeq(s, pos + 1, Len(s))

InitLinks ==
    /\ \E kind \in BoxKinds, link \in LinkValues, anchor \in AnchorValues :
           nodes = <<Box(kind, link, anchor, HitOf(1))>>
    /\ links = <<>>
    /\ anchors = <<>>
    /\ runs = 0
    /\ NormIdle
    /\ AppIdle

AddBox ==
    /\ runs = 0
    /\ Len(nodes) < MaxBoxes
    /\ \E parent \in 1..Len(nodes) :
           /\ IsParentBox(nodes[parent])
           /\ \E pos \in 0..Len(nodes[parent].children),
                 kind \in BoxKinds, link \in LinkValues,
                 anchor \in AnchorValues :
                  LET id == Len(nodes) + 1
                  IN nodes' = Append(
                         [nodes EXCEPT ![parent].children = InsertAt(@, pos, id)],
                         Box(kind, link, anchor, HitOf(id)))
    /\ UNCHANGED <<links, anchors, runs>>
    /\ UNCHANGED <<normVars, appVars>>

\* One extraction over the whole tree, as get_pages runs it (lines 61-63).
Extract ==
    /\ runs < MaxRuns
    /\ links' = Extracted(nodes).links
    /\ anchors' = Extracted(nodes).anchors
    /\ runs' = runs + 1
    /\ UNCHANGED nodes
    /\ UNCHANGED <<normVars, appVars>>

NextLinks == AddBox \/ Extract

SpecLinks == InitLinks /\ [][NextLinks]_vars

(***************************************************************************)
(* Document order, stated on the tree alone.                               *)
(***************************************************************************)
Boxes == 1..Len(nodes)

ParentOf(n) == CHOOSE p \in Boxes : \E i \in 1..Len(nodes[p].children) :
                                        nodes[p].children[i] = n

IndexIn(s, e) == CHOOSE i \in 1..Len(s) : s[i] = e

RECURSIVE PathTo(_)
\* The child positions on the way from the root to box n.
PathTo(n) ==
    IF n = 1 THEN <<>>
    ELSE PathTo(ParentOf(n)) \o <<IndexIn(nodes[ParentOf(n)].children, n)>>

IsProperPrefix(p, q) == Len(p) < Len(q) /\ SubSeq(q, 1, Len(p)) = p

\* Box a comes before box b in document order: a is an ancestor of b, or a
\* lies in the subtree of an earlier sibling than the one b lies in.
DocBefore(a, b) ==
    LET p == PathTo(a)
        q == PathTo(b)
    IN \/ IsProperPrefix(p, q)
       \/ \E i \in 1..Len(p) :
              /\ i <= Len(q)
              /\ SubSeq(p, 1, i - 1) = SubSeq(q, 1, i - 1)
              /\ p[i] < q[i]

IsDescendant(d, a) == IsProperPrefix(PathTo(a), PathTo(d))

\* The geometry part (x, y, width, height) of a LinkRecord or AnchorRecord.
RecordArea(rec) == SubSeq(rec, 2, Len(rec))

\* The box a record was taken from: hit areas are distinct in these trees.
BoxOfRecord(rec) == CHOOSE n \in Boxes : nodes[n].hit = RecordArea(rec)

RecordsOf(list, n) == {i \in 1..Len(list) : RecordArea(list[i]) = nodes[n].hit}

HasAnchor(n) == nodes[n].anchor # None
HasLink(n) == nodes[n].link # None

\* C1: after find_links on the root with empty lists, anchors holds exactly
\* one record for every box whose anchor style is present and none for any
\* other box, so as many records as there are such boxes.
C1_AnchorPerAnchoredBox ==
    runs > 0 =>
        /\ Len(anchors) = Cardinality({n \in Boxes : HasAnchor(n)})
        /\ \A n \in Boxes :
               Cardinality(RecordsOf(anchors, n)) = IF HasAnchor(n) THEN 1 ELSE 0
        /\ \A i \in 1..Len(anchors) :
               anchors[i] = <<nodes[BoxOfRecord(anchors[i])].anchor>>
                                \o nodes[BoxOfRecord(anchors[i])].hit

\* A three-level tree with an anchored TextBox leaf, an anchored container
\* and a box without anchor, after the extraction.
C1_Witness ==
    /\ runs > 0
    /\ Len(nodes) = 3
    /\ \E n \in Boxes : Len(PathTo(n)) = 2 /\ IsTextBox(nodes[n]) /\ HasAnchor(n)
    /\ \E n \in Boxes : ~HasAnchor(n)
    /\ Len(anchors) = 2

\* C2: a container whose link style is set gets exactly one LinkRecord and
\* its TextBox descendants, which carry the inherited link, get none; a
\* TextBox with a link and an anchor still gets its AnchorRecord.
C2_LinkOncePerContainer ==
    runs > 0 =>
        /\ \A c \in Boxes :
               (IsParentBox(nodes[c]) /\ HasLink(c)) =>
                   /\ Cardinality(RecordsOf(links, c)) = 1
                   /\ \A d \in Boxes :
                          (IsDescendant(d, c) /\ IsTextBox(nodes[d])) =>
                              RecordsOf(links, d) = {}
        /\ \A d \in Boxes :
               (IsTextBox(nodes[d]) /\ HasLink(d)) =>
                   /\ RecordsOf(links, d) = {}
                   /\ HasAnchor(d) => Cardinality(RecordsOf(anchors, d)) = 1

\* A linked container with two TextBox children that inherit its link, one
\* of them anchored: one LinkRecord, one AnchorRecord.
C2_Witness ==
    /\ runs > 0
    /\ Len(nodes) = 3
    /\ IsParentBox(nodes[1]) /\ HasLink(1)
    /\ \A d \in 2..3 : IsTextBox(nodes[d]) /\ nodes[d].link = nodes[1].link
    /\ \E d \in 2..3 : HasAnchor(d)
    /\ Len(links) = 1
    /\ Len(anchors) >= 1

InDocumentOrder(list) ==
    \A i, j \in 1..Len(list) :
        i < j => DocBefore(BoxOfRecord(list[i]), BoxOfRecord(list[j]))

C4_TargetForm ==
    runs > 0 =>
        \A i \in 1..Len(links) :
            LET rec == links[i]
                box == nodes[BoxOfRecord(rec)]
                target == rec[1]
            IN /\ Len(rec) = 5
               /\ RecordArea(rec) = box.hit
               /\ box.link[1] = "internal" => target = <<"#">> \o box.link[2]
               /\ box.link[1] # "internal" =>
                      target = <<"/", "v", "i", "e", "w", "/">> \o box.link[2]
               /\ ~(startswith(target, <<"#">>)
                      /\ startswith(target, <<"/", "v", "i", "e", "w", "/">>))

\* An extraction that recorded an internal and an external link.
C4_Witness ==
    /\ runs > 0
    /\ \E i, j \in 1..Len(links) :
           /\ nodes[BoxOfRecord(links[i])].link[1] = "internal"
           /\ nodes[BoxOfRecord(links[j])].link[1] = "external"

(***************************************************************************)
(* normalize_url                                                           *)
(***************************************************************************)
HttpPrefix == <<"h", "t", "t", "p", ":", "/", "/">>

SchemeLetters == {"h", "t", "p", "s", "x", "r"}
SchemeChars == SchemeLetters \cup {"1", "+", "-", "."}

\* weasyprint.urls.url_is_absolute: the string starts with a scheme, a
\* letter followed by letters, digits, "+", "-" or ".", and then ":".
url_is_absolute(url) ==
    \E i \in 2..Len(url) :
        /\ url[i] = ":"
        /\ url[1] \in SchemeLetters
        /\ \A j \in 2..(i - 1) : url[j] \in SchemeChars

\* lines 118-125 with the test of line 122 lost
normalize_url_always_prefixed(url, query_string) ==
    IF Truthy(url)
    THEN HttpPrefix \o (IF Truthy(query_string)
                        THEN url \o <<"?">> \o query_string ELSE url)
    ELSE None

\* lines 118-125
normalize_url(url, query_string) ==
    IF Truthy(url)
    THEN LET url1 == IF Truthy(query_string)
                     THEN url \o <<"?">> \o query_string
                     ELSE url
         IN IF ~url_is_absolute(url1) THEN HttpPrefix \o url1 ELSE url1
    ELSE None

UrlChars == {"h", "1", ":", "/"}

StringsUpTo(chars, n) == UNION {[1..k -> chars] : k \in 0..n}

UrlInputs == {None} \cup StringsUpTo(UrlChars, MaxUrlLen)
QueryInputs == {None, <<>>, <<"q">>, <<"h", ":">>}

InitNorm ==
    /\ url_in \in UrlInputs
    /\ query_in \in QueryInputs
    /\ normalized = None
    /\ renormalized = None
    /\ calls = 0
    /\ LinksIdle
    /\ AppIdle

\* normalize_url(url, query_string)
Normalize ==
    /\ calls = 0
    /\ normalized' = normalize_url(url_in, query_in)
    /\ calls' = 1
    /\ UNCHANGED <<url_in, query_in, renormalized>>
    /\ UNCHANGED <<linkVars, appVars>>

\* normalize_url(normalize_url(url, query_string))
Renormalize ==
    /\ calls = 1
    /\ renormalized' = normalize_url(normalized, None)
    /\ calls' = 2
    /\ UNCHANGED <<url_in, query_in, normalized>>
    /\ UNCHANGED <<linkVars, appVars>>

NextNorm == Normalize \/ Renormalize

SpecNorm == InitNorm /\ [][NextNorm]_vars

Absent(v) == v = None \/ v = <<>>

\* C6: normalize_url returns None for an empty or absent url whatever the
\* query string; otherwise the url, with "?" and the query string appended
\* when that is non-empty, prefixed with "http://" exactly when it is not
\* absolute.  Every result other than None is absolute, and normalising a
\* result again changes nothing.
C6_NormalizeUrl ==
    /\ calls >= 1 =>
           /\ Absent(url_in) => normalized = None
           /\ ~Absent(url_in) =>
                  LET withQuery == IF Absent(query_in) THEN url_in
                                   ELSE url_in \o <<"?">> \o query_in
                  IN /\ url_is_absolute(withQuery) => normalized = withQuery
                     /\ ~url_is_absolute(withQuery) =>
                            normalized =
                                <<"h", "t", "t", "p", ":", "/", "/">> \o withQuery
                     /\ normalized # None
           /\ normalized # None => url_is_absolute(normalized)
    /\ calls = 2 => renormalized = normalized

\* Both calls made on a url without scheme and a query string that holds a
\* ":": the result is the url and the query string behind "http://".
C6_Witness ==
    /\ calls = 2
    /\ url_in = <<"h", "/">>
    /\ query_in = <<"h", ":">>
    /\ normalized = <<"h", "t", "t", "p", ":", "/", "/", "h", "/", "?", "h", ":">>
    /\ renormalized = normalized

(***************************************************************************)
(* get_pages: the data URL of a page and the tuple yielded for it.         *)
(***************************************************************************)
Base64Alphabet ==
    <<
      "A", "B", "C", "D", "E", "F", "G", "H", "I", "J", "K", "L", "M", "N", "O", "P",
      "Q", "R", "S", "T", "U", "V", "W", "X", "Y", "Z", "a", "b", "c", "d", "e", "f",
      "g", "h", "i", "j", "k", "l", "m", "n", "o", "p", "q", "r", "s", "t", "u", "v",
      "w", "x", "y", "z", "0", "1", "2", "3", "4", "5", "6", "7", "8", "9", "+", "/"
    >>

Base64Char(n) == Base64Alphabet[n + 1]

RECURSIVE b64encode(_)
\* The base64 text of a byte string: three bytes give four characters, a
\* last group of one or two bytes is padded with "=".
b64encode(bytes) ==
    IF Len(bytes) = 0 THEN <<>>
    ELSE IF Len(bytes) = 1 THEN
        LET n == bytes[1] * 65536
        IN <<Base64Char(n \div 262144), Base64Char((n \div 4096) % 64), "=", "=">>
    ELSE IF Len(bytes) = 2 THEN
        LET n == bytes[1] * 65536 + bytes[2] * 256
        IN <<Base64Char(n \div 262144), Base64Char((n \div 4096) % 64),
             Base64Char((n \div 64) % 64), "=">>
    ELSE
        LET n == bytes[1] * 65536 + bytes[2] * 256 + bytes[3]
        IN <<Base64Char(n \div 262144), Base64Char((n \div 4096) % 64),
             Base64Char((n \div 64) % 64), Base64Char(n % 64)>>
           \o b64encode(SubSeq(bytes, 4, Len(bytes)))

\* base64.encodestring on at most 57 bytes: one line, ended by a newline
encodestring(bytes) == b64encode(bytes) \o <<"\n">>

IsNotNewline(c) == c # "\n"

\* line 65: .replace('\n', '')
RemoveNewlines(text) == SelectSeq(text, IsNotNewline)

\* line 64: the literal 'data:image/png;base64,', kept whole
DataUrlPrefix == <<"data:image/png;base64,">>

\* lines 64-65
DataUrl(png_bytes) == DataUrlPrefix \o RemoveNewlines(encodestring(png_bytes))

\* lines 60-66: the tuple yielded for the i-th pair of izip
PageTuple(doc, png, i) ==
    LET page == doc[i]
        width == png[i][1]
        height == png[i][2]
        png_bytes == png[i][3]
        found == Extracted(page)
    IN <<width, height, DataUrl(png_bytes), found.links, found.anchors>>

\* line 60: izip stops with the shorter of its two arguments
IzipHasNext(doc, png, i) == i < Len(doc) /\ i < Len(png)

(***************************************************************************)
(* render_template: parts is a list of pieces of text.  A piece written    *)
(* from a literal is one token; a piece written with format() is a token   *)
(* that holds the values formatted into it.                                *)
(***************************************************************************)
PageHead == [tag |-> "head"]
Text(s) == [tag |-> "text", text |-> s]
FormControls == [tag |-> "controls"]
PdfOpen == [tag |-> "pdf_open"]
PdfClose == [tag |-> "pdf_close"]
FormEnd == [tag |-> "form_end"]
SectionEnd == [tag |-> "section_end"]

AnchorOffset == 60

\* lines 103-104
SectionOpen(width, height, data_url) ==
    [tag |-> "section", width |-> width, height |-> height, src |-> data_url]

\* lines 105-108
LinkOverlay(rec) ==
    LET href == rec[1]
        pos_x == rec[2]
        pos_y == rec[3]
        width == rec[4]
        height == rec[5]
    IN [tag |-> "a_href", left |-> pos_x, top |-> pos_y, width |-> width,
        height |-> height, href |-> href]

\* lines 109-113 without the 60px of the address bar
AnchorMarkNoOffset(rec) ==
    [tag |-> "a_name", left |-> rec[2], top |-> rec[3], name |-> rec[1]]

\* lines 109-113
AnchorMark(rec) ==
    LET anchor == rec[1]
        pos_x == rec[2]
        pos_y == rec[3]
    IN [tag |-> "a_name", left |-> pos_x, top |-> pos_y - AnchorOffset,
        name |-> anchor]

\* lines 103-114: what the loop body writes for one yielded tuple
SectionParts(page) ==
    <<SectionOpen(page[1], page[2], page[3])>>
        \o [i \in 1..Len(page[4]) |-> LinkOverlay(page[4][i])]
        \o [i \in 1..Len(page[5]) |-> AnchorMark(page[5][i])]
        \o <<SectionEnd>>

\* lines 96-99 without the test of line 96
PdfLinkAlways(u) == <<PdfOpen, Text(u), PdfClose>>

\* lines 96-99
PdfLink(u) == IF Truthy(u) THEN <<PdfOpen, Text(u), PdfClose>> ELSE <<>>

\* lines 91-94: the value written into the form
FormValue(u) == IF Truthy(u) THEN <<Text(u)>> ELSE <<>>

(***************************************************************************)
(* app                                                                     *)
(***************************************************************************)
FaviconPath == <<"/", "f", "a", "v", "i", "c", "o", "n", ".", "i", "c", "o">>
PdfPrefix == <<"/", "p", "d", "f", "/">>
RootPath == <<"/">>
PdfPrefixLen == 5
ViewPrefixLen == 6

FaviconBody == <<[tag |-> "icon"]>>
PdfBody == <<[tag |-> "pdf"]>>
NotFoundBody == <<Text(<<"<", "h", "1", ">", "N", "o", "t", " ", "F", "o", "u", "n", "d", "<", "/", "h", "1", ">">>)>>

RECURSIVE str(_)
\* str() of a natural number: its decimal digits
str(n) ==
    LET digit == <<"0", "1", "2", "3", "4", "5", "6", "7", "8", "9">>[(n % 10) + 1]
    IN IF n < 10 THEN <<digit>> ELSE str(n \div 10) \o <<digit>>

\* lines 131-134: the arguments of start_response
StartResponseCall(body, status, content_type) ==
    <<status, <<<<"Content-Type", content_type>>,
                <<"Content-Length", str(Len(body))>>>>>>

RECURSIVE SplitOn(_, _)
\* s.split(sep) for a one-character separator
SplitOn(s, sep) ==
    IF \A i \in 1..Len(s) : s[i] # sep THEN <<s>>
    ELSE LET k == CHOOSE i \in 1..Len(s) :
                      s[i] = sep /\ \A j \in 1..(i - 1) : s[j] # sep
         IN <<SubSeq(s, 1, k - 1)>> \o SplitOn(SubSeq(s, k + 1, Len(s)), sep)

UrlKey == <<"u", "r", "l", "=">>

IsUrlField(f) == startswith(f, UrlKey) /\ Len(f) > Len(UrlKey)

\* line 153-154: parse_qs(query).get('url', [''])[0]; parse_qs drops the
\* fields without "=" and those with a blank value
UrlArgument(query) ==
    LET fields == SelectSeq(SplitOn(query, "&"), IsUrlField)
    IN IF fields = <<>> THEN <<>>
       ELSE SubSeq(fields[1], Len(UrlKey) + 1, Len(fields[1]))

\* line 139
IsFaviconPath(path) == path = FaviconPath

\* line 143 without len(path) > 5
IsPdfPathAnyLength(path) == startswith(path, PdfPrefix)

\* line 143
IsPdfPath(path) == startswith(path, PdfPrefix) /\ Len(path) > PdfPrefixLen

\* line 148
IsViewPath(path) == startswith(path, ViewPrefix)

\* line 152
IsRootPath(path) == path = RootPath

\* path[5:], path[6:]
Slice(path, n) == SubSeq(path, n + 1, Len(path))

(***************************************************************************)
(* The requests and what the renderer may answer.                          *)
(***************************************************************************)
PathTails == {<<>>, <<"x">>, <<"h", ":", "x">>}

Paths ==
    {RootPath, FaviconPath, <<"/", "p", "d", "f">>, <<"/", "o">>}
        \cup {PdfPrefix \o t : t \in PathTails}
        \cup {ViewPrefix \o t : t \in PathTails}

\* QUERY_STRING; None when environ has no such key
QueryStrings == {None, <<>>, <<"q">>, <<"u", "r", "l", "=", "x">>}

\* html.base_url: the url itself, or the one a redirect led to
BaseUrls(u) == {u, <<"h", ":", "r">>}

\* A page with a container that holds an internal link to "s" around a text
\* box, and a box anchored "s".
TreeExample ==
    << [Box("ParentBox", None, None, <<0, 0, 595, 842>>)
            EXCEPT !.children = <<2, 4>>],
       [Box("ParentBox", <<"internal", <<"s">>>>, None, <<10, 20, 100, 30>>)
            EXCEPT !.children = <<3>>],
       Box("TextBox", <<"internal", <<"s">>>>, None, <<10, 20, 50, 30>>),
       Box("ParentBox", None, <<"s">>, <<0, 200, 50, 10>>) >>

\* A page that is one box with an external link and an anchor near the top.
TreeExternal ==
    << Box("ParentBox", <<"external", <<"h", ":", "x">>>>, <<"t">>,
           <<5, 20, 40, 10>>) >>

PageTrees == {TreeExample, TreeExternal}

PngPageValues == {<<595, 842, <<137, 80, 78, 71>>>>, <<300, 200, <<71>>>>}

SeqsUpTo(S, n) == UNION {[1..k -> S] : k \in 0..n}

path == environ.PATH_INFO

\* environ.get('QUERY_STRING', default)
QueryString(default) ==
    IF environ.QUERY_STRING = None THEN default ELSE environ.QUERY_STRING

\* lines 139-157: the if/elif chain
Dispatch(p) ==
    IF IsFaviconPath(p) THEN "favicon"
    ELSE IF IsPdfPath(p) THEN "pdf"
    ELSE IF IsViewPath(p) THEN "view"
    ELSE IF IsRootPath(p) THEN "root"
    ELSE "notfound"

\* lines 129-135
make_response(body, status, content_type) ==
    /\ start_calls' = Append(start_calls,
                             StartResponseCall(body, status, content_type))
    /\ response' = <<body>>
    /\ pc' = "returned"

renderVars == <<rt_url, parts, html_built, gen, document, png_pages, idx, pages>>

InitApp ==
    /\ pc = "app"
    /\ environ \in [PATH_INFO : Paths, QUERY_STRING : QueryStrings]
    /\ branch = "none"
    /\ rt_url = None
    /\ parts = <<>>
    /\ html_built = 0
    /\ gen = "none"
    /\ document = <<>>
    /\ png_pages = <<>>
    /\ idx = 0
    /\ pages = <<>>
    /\ start_calls = <<>>
    /\ response = None
    /\ pdf_calls = <<>>
    /\ LinksIdle
    /\ NormIdle

\* lines 139-141
ServeFavicon ==
    /\ pc = "app"
    /\ Dispatch(path) = "favicon"
    /\ branch' = "favicon"
    /\ make_response(FaviconBody, "200 OK", "image/x-icon")
    /\ UNCHANGED <<environ, pdf_calls, renderVars, linkVars, normVars>>

\* lines 143-146
ExportPdf ==
    /\ pc = "app"
    /\ Dispatch(path) = "pdf"
    /\ branch' = "pdf"
    /\ pdf_calls' = Append(pdf_calls,
           normalize_url(Slice(path, PdfPrefixLen), QueryString(None)))
    /\ make_response(PdfBody, "200 OK", "application/pdf")
    /\ UNCHANGED <<environ, renderVars, linkVars, normVars>>

\* line 145 raising: the renderer fails on the document
PdfFails ==
    /\ pc = "app"
    /\ Dispatch(path) = "pdf"
    /\ branch' = "pdf"
    /\ pdf_calls' = Append(pdf_calls,
           normalize_url(Slice(path, PdfPrefixLen), QueryString(None)))
    /\ pc' = "raised"
    /\ UNCHANGED <<environ, start_calls, response, renderVars, linkVars, normVars>>

\* lines 148-150, up to the call of render_template, and lines 70-90
ViewPage ==
    /\ pc = "app"
    /\ Dispatch(path) = "view"
    /\ branch' = "view"
    /\ rt_url' = normalize_url(Slice(path, ViewPrefixLen), QueryString(None))
    /\ parts' = <<PageHead>>
    /\ pc' = "render"
    /\ UNCHANGED <<environ, html_built, gen, document, png_pages, idx, pages,
                   start_calls, response, pdf_calls, linkVars, normVars>>

\* lines 152-155, up to the call of render_template, and lines 70-90
RootPage ==
    /\ pc = "app"
    /\ Dispatch(path) = "root"
    /\ branch' = "root"
    /\ rt_url' = normalize_url(UrlArgument(QueryString(<<>>)), None)
    /\ parts' = <<PageHead>>
    /\ pc' = "render"
    /\ UNCHANGED <<environ, html_built, gen, document, png_pages, idx, pages,
                   start_calls, response, pdf_calls, linkVars, normVars>>

\* line 157
NotFound ==
    /\ pc = "app"
    /\ Dispatch(path) = "notfound"
    /\ branch' = "notfound"
    /\ make_response(NotFoundBody, "404 Not Found", "text/html; charset=UTF-8")
    /\ UNCHANGED <<environ, pdf_calls, renderVars, linkVars, normVars>>

\* lines 91-102: the form, and with a url the HTML object, the PDF link and
\* the get_pages generator, which has not run yet
OpenDocument ==
    /\ pc = "render"
    /\ \E base_url \in (IF Truthy(rt_url) THEN BaseUrls(rt_url) ELSE {rt_url}) :
           /\ rt_url' = base_url
           /\ parts' = parts \o FormValue(base_url) \o <<FormControls>>
                           \o PdfLink(base_url) \o <<FormEnd>>
    /\ html_built' = IF Truthy(rt_url) THEN html_built + 1 ELSE html_built
    /\ gen' = IF Truthy(rt_url) THEN "created" ELSE gen
    /\ pc' = IF Truthy(rt_url) THEN "pages" ELSE "join"
    /\ UNCHANGED <<environ, branch, document, png_pages, idx, pages,
                   start_calls, response, pdf_calls, linkVars, normVars>>

\* line 92 raising: the document cannot be fetched or parsed
HtmlFails ==
    /\ pc = "render"
    /\ Truthy(rt_url)
    /\ pc' = "raised"
    /\ UNCHANGED <<environ, branch, renderVars, start_calls, response,
                   pdf_calls, linkVars, normVars>>

\* line 59, run by the first next() on the generator.  The renderer is
\* outside this code: nothing in get_pages ties the lengths of the two
\* sequences it hands back to each other.
StartPages ==
    /\ pc = "pages"
    /\ gen = "created"
    /\ document' \in SeqsUpTo(PageTrees, MaxPages)
    /\ png_pages' \in SeqsUpTo(PngPageValues, MaxPages)
    /\ gen' = "running"
    /\ UNCHANGED <<pc, environ, branch, rt_url, parts, html_built, idx, pages,
                   start_calls, response, pdf_calls, linkVars, normVars>>

\* line 59 raising: layout fails
RenderFails ==
    /\ pc = "pages"
    /\ gen = "created"
    /\ pc' = "raised"
    /\ UNCHANGED <<environ, branch, renderVars, start_calls, response,
                   pdf_calls, linkVars, normVars>>

\* lines 60-66 and 102-114: the generator yields the next tuple and the loop
\* body writes its section
EmitPage ==
    /\ pc = "pages"
    /\ gen = "running"
    /\ IzipHasNext(document, png_pages, idx)
    /\ LET page == PageTuple(document, png_pages, idx + 1)
       IN /\ pages' = Append(pages, page)
          /\ parts' = parts \o SectionParts(page)
    /\ idx' = idx + 1
    /\ UNCHANGED <<pc, environ, branch, rt_url, html_built, gen, document,
                   png_pages, start_calls, response, pdf_calls, linkVars,
                   normVars>>

\* line 60 raising: png_pages is lazy, drawing the next page fails
PageFails ==
    /\ pc = "pages"
    /\ gen = "running"
    /\ IzipHasNext(document, png_pages, idx)
    /\ pc' = "raised"
    /\ UNCHANGED <<environ, branch, renderVars, start_calls, response,
                   pdf_calls, linkVars, normVars>>

\* line 60: izip is exhausted, the generator returns and the loop ends
FinishPages ==
    /\ pc = "pages"
    /\ gen = "running"
    /\ ~IzipHasNext(document, png_pages, idx)
    /\ gen' = "exhausted"
    /\ pc' = "join"
    /\ UNCHANGED <<environ, branch, rt_url, parts, html_built, document,
                   png_pages, idx, pages, start_calls, response, pdf_calls,
                   linkVars, normVars>>

\* a response started while the pages are still being written
ResponseReadyEarly == pc \in {"pages", "join"}

\* lines 115 and 150, 155: render_template has returned its whole result
ResponseReady == pc = "join"

\* lines 115, 150 and 155: make_response(render_template(url)); the body is
\* the parts joined, token by token
Respond ==
    /\ ResponseReady
    /\ make_response(parts, "200 OK", "text/html; charset=UTF-8")
    /\ UNCHANGED <<environ, branch, pdf_calls, renderVars, linkVars, normVars>>

NextApp ==
    \/ ServeFavicon
    \/ ExportPdf
    \/ PdfFails
    \/ ViewPage
    \/ RootPage
    \/ NotFound
    \/ OpenDocument
    \/ HtmlFails
    \/ StartPages
    \/ RenderFails
    \/ EmitPage
    \/ PageFails
    \/ FinishPages
    \/ Respond

SpecApp == InitApp /\ [][NextApp]_vars

(***************************************************************************)
(* Properties of get_pages, render_template and app.                       *)
(***************************************************************************)
\* C5: when document.pages and png_pages differ in length get_pages fails
\* instead of ending normally on the shorter of the two; when both have
\* length n it yields n tuples, the i-th made of the i-th box tree's links
\* and anchors and the i-th width, height and bytes.
C5_FailFastOnMismatch ==
    gen = "exhausted" =>
        /\ Len(document) = Len(png_pages)
        /\ Len(pages) = Len(document)
        /\ \A i \in 1..Len(pages) :
               /\ pages[i][1] = png_pages[i][1]
               /\ pages[i][2] = png_pages[i][2]
               /\ pages[i][3] = <<"data:image/png;base64,">>
                                    \o b64encode(png_pages[i][3])
               /\ pages[i][4] = Extracted(document[i]).links
               /\ pages[i][5] = Extracted(document[i]).anchors

\* What is written after the form.
AfterForm == LET k == CHOOSE i \in 1..Len(parts) : parts[i].tag = "form_end"
             IN SubSeq(parts, k + 1, Len(parts))

\* The number of tokens a page takes: the section, its overlays, its end.
SectionSize(page) == 2 + Len(page[4]) + Len(page[5])

RECURSIVE SectionStart(_)
\* How many tokens come before the section of the k-th yielded page.
SectionStart(k) ==
    IF k = 1 THEN 0 ELSE SectionStart(k - 1) + SectionSize(pages[k - 1])

C8_BareForm ==
    (pc \in {"join", "returned"} /\ branch \in {"view", "root"} /\ Absent(rt_url)) =>
        /\ parts = <<[tag |-> "head"], [tag |-> "controls"], [tag |-> "form_end"]>>
        /\ \A i \in 1..Len(parts) :
               parts[i].tag \notin {"pdf_open", "pdf_close", "section", "text"}
        /\ html_built = 0
        /\ gen = "none"
        /\ pages = <<>>

\* The answer to /?url= with nothing behind it, or to / alone: the bare form.
C8_Witness ==
    /\ pc = "returned"
    /\ branch = "root"
    /\ rt_url = None
    /\ response = <<<<[tag |-> "head"], [tag |-> "controls"], [tag |-> "form_end"]>>>>

\* C9: on /view/ and /, start_response is called only once the get_pages
\* generator is exhausted and the body is whole; when the renderer fails,
\* start_response is never called and nothing is returned.
C9_ResponseAfterAllPages ==
    branch \in {"view", "root"} =>
        /\ start_calls # <<>> =>
               /\ pc = "returned"
               /\ gen \in {"none", "exhausted"}
               /\ gen = "none" => html_built = 0
               /\ gen = "exhausted" => ~IzipHasNext(document, png_pages, Len(pages))
               /\ response = <<parts>>
               /\ parts[Len(parts)].tag \in {"form_end", "section_end"}
        /\ pc = "raised" => (start_calls = <<>> /\ response = None)

\* The renderer failed on the second page, after the first section was
\* written: no response was started.
C9_Witness ==
    /\ pc = "raised"
    /\ branch = "view"
    /\ Len(pages) = 1
    /\ parts[Len(parts)].tag = "section_end"
    /\ start_calls = <<>>

DigitValue(c) ==
    CHOOSE d \in 0..9 : <<"0", "1", "2", "3", "4", "5", "6", "7", "8", "9">>[d + 1] = c

RECURSIVE ParseNat(_)
ParseNat(digits) ==
    IF Len(digits) = 1 THEN DigitValue(digits[1])
    ELSE 10 * ParseNat(SubSeq(digits, 1, Len(digits) - 1))
             + DigitValue(digits[Len(digits)])

IsUnder(p, prefix) ==
    Len(p) >= Len(prefix) /\ \A i \in 1..Len(prefix) : p[i] = prefix[i]

\* The branch the request path stands for.
BranchOf(p) ==
    CASE p = <<"/", "f", "a", "v", "i", "c", "o", "n", ".", "i", "c", "o">> -> "favicon"
      [] IsUnder(p, <<"/", "p", "d", "f", "/">>) /\ Len(p) > 5 -> "pdf"
      [] IsUnder(p, <<"/", "v", "i", "e", "w", "/">>) -> "view"
      [] p = <<"/">> -> "root"
      [] OTHER -> "notfound"

====
